---- MODULE Spec2Model ----
(***************************************************************************)
(* Structural model of the type declarations of material-schemes           *)
(* (types/color-scheme.ts, types/theme.ts).  A type is modelled by what    *)
(* the TypeScript checker computes for it: an object type is its declared  *)
(* properties, the optional ones among them and its string index           *)
(* signature; an intersection is the sequence of its constituents.  A      *)
(* value is a record of tagged JavaScript values.  The operations are the  *)
(* checks of a value against each declared type.                           *)
(***************************************************************************)
EXTENDS Integers, Sequences, FiniteSets, TLC

VARIABLES value, key, target, verdict, variants, base, options, hook, result

vars == <<value, key, target, verdict, variants, base, options, hook, result>>

(***************************************************************************)
(* Bounds                                                                  *)
(***************************************************************************)
\* number of canonical role names taken from the M3 role list
NumKeys == 2
\* longest paletteTones list that is enumerated
MaxTones == 2

(***************************************************************************)
(* JavaScript values                                                       *)
(***************************************************************************)
Num(n) == [tag |-> "number", n |-> n]
Str == [tag |-> "string"]
Bool(b) == [tag |-> "boolean", b |-> b]
Arr(es) == [tag |-> "array", elems |-> es]
Fun == [tag |-> "function"]

\* the empty object literal {}
EmptyObject == [k \in {} |-> Str]

Range(s) == {s[i] : i \in DOMAIN s}

\* v inhabits the atomic type a
Matches(v, a) ==
  CASE a = "number" -> v.tag = "number"
    [] a = "string" -> v.tag = "string"
    [] a = "boolean" -> v.tag = "boolean"
    [] a = "false" -> v.tag = "boolean" /\ v.b = FALSE
    [] a = "true" -> v.tag = "boolean" /\ v.b = TRUE
    [] a = "number[]" -> v.tag = "array" /\ \A i \in DOMAIN v.elems : v.elems[i].tag = "number"
    [] a = "StaticColor[]" -> v.tag = "array" /\ \A i \in DOMAIN v.elems : v.elems[i].tag = "StaticColor"
    [] a = "function" -> v.tag = "function"
    [] OTHER -> FALSE

\* v inhabits the union of the atomic types in u (the empty union is never)
MatchesUnion(v, u) == \E a \in u : Matches(v, a)

(***************************************************************************)
(* Types                                                                   *)
(***************************************************************************)
\* a key type: a union of string literal types, or string itself
KeyType(lits, str) == [literals |-> lits, hasString |-> str]

\* union of two key types; a literal type is a subtype of string, so the
\* union with string reduces to string
KeyUnion(a, b) ==
  IF a.hasString \/ b.hasString
    THEN KeyType({}, TRUE)
    ELSE KeyType(a.literals \cup b.literals, FALSE)

\* an object type
ObjType(props, optional, hasIndex, index) ==
  [props |-> props, optional |-> optional, hasIndex |-> hasIndex, index |-> index]

\* the keys an object type requires
RequiredKeys(t) == DOMAIN t.props \ t.optional

\* Record<K, T>: a property per literal of K, an index signature if K is string
RecordType(K, T) ==
  ObjType([k \in K.literals |-> T], {}, K.hasString, T)

\* assignability of an object value to an object type
AssignableObj(v, t) ==
  /\ \A p \in RequiredKeys(t) : p \in DOMAIN v
  /\ \A p \in DOMAIN t.props \cap DOMAIN v : MatchesUnion(v[p], t.props[p])
  /\ t.hasIndex => \A p \in DOMAIN v : MatchesUnion(v[p], t.index)

\* assignability to an intersection: to every constituent
Assignable(v, ts) == \A i \in DOMAIN ts : AssignableObj(v, ts[i])

\* the keys an intersection requires
RequiredKeysOf(ts) == UNION {RequiredKeys(ts[i]) : i \in DOMAIN ts}

(***************************************************************************)
(* types/color-scheme.ts                                                   *)
(***************************************************************************)
M3_ROLES == <<"primary", "secondary", "tertiary", "error">>

\* the tuple of canonical role names ('../constants')
COLOR_SCHEME_KEYS == SubSeq(M3_ROLES, 1, NumKeys)

\* (typeof COLOR_SCHEME_KEYS)[number]
ColorKey == KeyType(Range(COLOR_SCHEME_KEYS), FALSE)

\* the index signature widened to Color (string | number)
ColorSchemeOfColors == <<RecordType(KeyUnion(ColorKey, KeyType({}, TRUE)), {"number", "string"})>>

\* interface ColorScheme extends Record<ColorKey | string, number> {}
ColorScheme == <<RecordType(KeyUnion(ColorKey, KeyType({}, TRUE)), {"number"})>>

\* the suffix put in front of the key instead of behind it
SuffixedKeyPrefixed(K, Suffix) == Suffix \o K

\* the template literal `${K}${Suffix}`
SuffixedKey(K, Suffix) == K \o Suffix

\* { [K in ColorKey as `${K}${Suffix}`]: number }
SuffixedColorScheme(Suffix) ==
  <<ObjType([p \in {SuffixedKey(K, Suffix) : K \in ColorKey.literals} |-> {"number"}],
            {}, FALSE, {})>>

LightColorScheme == SuffixedColorScheme("Light")

DarkColorScheme == SuffixedColorScheme("Dark")

\* V extends true ? ColorScheme & LightColorScheme & DarkColorScheme : ColorScheme
ColorSchemeReturnType(V) ==
  IF V THEN ColorScheme \o LightColorScheme \o DarkColorScheme ELSE ColorScheme

\* a string is accepted as a ColorKey
IsColorKey(s) == ColorKey.hasString \/ s \in ColorKey.literals

(***************************************************************************)
(* The values that are checked                                             *)
(***************************************************************************)
CanonicalKeys == Range(COLOR_SCHEME_KEYS)
LightKeys == {k \o "Light" : k \in CanonicalKeys}
DarkKeys == {k \o "Dark" : k \in CanonicalKeys}
ExtraKeys == {"brand"}
SchemeKeys == CanonicalKeys \cup LightKeys \cup DarkKeys \cup ExtraKeys

\* every object over ks whose properties are numbers or strings
ObjectsOver(ks) == UNION {[d -> {Num(0), Str}] : d \in SUBSET ks}

NoKey == ""
NoTarget == "none"

\* the strings offered as a ColorKey
KeyCandidates == SchemeKeys

TypeOK ==
  /\ value \in ObjectsOver(SchemeKeys)
  /\ key \in KeyCandidates \cup {NoKey}
  /\ verdict \in BOOLEAN
  /\ variants \in BOOLEAN

\* the subject of a check is an object, or a string offered as a key
Init ==
  /\ \/ value \in ObjectsOver(SchemeKeys) /\ key = NoKey
     \/ value = EmptyObject /\ key \in KeyCandidates
  /\ target = NoTarget
  /\ verdict = FALSE
  /\ variants = FALSE
  /\ base = <<>>
  /\ options = EmptyObject
  /\ hook = <<>>
  /\ result = EmptyObject

\* const x: ColorScheme = value
CheckColorScheme ==
  /\ key = NoKey
  /\ target' = "ColorScheme"
  /\ verdict' = Assignable(value, ColorScheme)
  /\ UNCHANGED <<value, key, variants, base, options, hook, result>>

\* const x: LightColorScheme = value
CheckLightColorScheme ==
  /\ key = NoKey
  /\ target' = "LightColorScheme"
  /\ verdict' = Assignable(value, LightColorScheme)
  /\ UNCHANGED <<value, key, variants, base, options, hook, result>>

\* const x: DarkColorScheme = value
CheckDarkColorScheme ==
  /\ key = NoKey
  /\ target' = "DarkColorScheme"
  /\ verdict' = Assignable(value, DarkColorScheme)
  /\ UNCHANGED <<value, key, variants, base, options, hook, result>>

\* const x: ColorSchemeReturnType<V> = value
CheckColorSchemeReturnType(V) ==
  /\ key = NoKey
  /\ target' = "ColorSchemeReturnType"
  /\ variants' = V
  /\ verdict' = Assignable(value, ColorSchemeReturnType(V))
  /\ UNCHANGED <<value, key, base, options, hook, result>>

\* const k: ColorKey = key
CheckColorKey ==
  /\ key # NoKey
  /\ target' = "ColorKey"
  /\ verdict' = IsColorKey(key)
  /\ UNCHANGED <<value, key, variants, base, options, hook, result>>

Next ==
  \/ CheckColorScheme
  \/ CheckLightColorScheme
  \/ CheckDarkColorScheme
  \/ \E V \in BOOLEAN : CheckColorSchemeReturnType(V)
  \/ CheckColorKey

Spec == Init /\ [][Next]_vars

(***************************************************************************)
(* CustomColorScheme<T>                                                    *)
(***************************************************************************)
\* T & { [key: string]: number }
CustomColorScheme(T) == T \o <<ObjType([p \in {} |-> {}], {}, TRUE, {"number"})>>

\* the default of the type parameter: Record<string, string | number>
CustomColorSchemeDefault == <<RecordType(KeyType({}, TRUE), {"string", "number"})>>

BaseFields == {"name", "argb"}
CustomKeys == BaseFields \cup ExtraKeys

\* the base shapes T that are tried: T is unconstrained, so any object type
\* over the base fields with required string or number fields, and the default
BaseShapes ==
  {<<ObjType(ps, {}, FALSE, {})>> :
     ps \in UNION {[d -> {{"string"}, {"number"}, {"string", "number"}}] : d \in SUBSET BaseFields}}
  \cup {CustomColorSchemeDefault}

InitCustom ==
  /\ base \in BaseShapes
  /\ value \in ObjectsOver(CustomKeys)
  /\ key = NoKey
  /\ target = NoTarget
  /\ verdict = FALSE
  /\ variants = FALSE
  /\ options = EmptyObject
  /\ hook = <<>>
  /\ result = EmptyObject

\* const x: T = value
CheckBase ==
  /\ target' = "T"
  /\ verdict' = Assignable(value, base)
  /\ UNCHANGED <<value, key, variants, base, options, hook, result>>

\* const x: CustomColorScheme<T> = value
CheckCustomColorScheme ==
  /\ target' = "CustomColorScheme"
  /\ verdict' = Assignable(value, CustomColorScheme(base))
  /\ UNCHANGED <<value, key, variants, base, options, hook, result>>

NextCustom ==
  \/ CheckBase
  \/ CheckCustomColorScheme

SpecCustom == InitCustom /\ [][NextCustom]_vars

(***************************************************************************)
(* ColorSchemeOptions.modifyColorScheme                                    *)
(***************************************************************************)
\* a hook body: it removes the property drop, then sets the property add to put
Hooks ==
  [drop : SchemeKeys \cup {NoKey}, add : SchemeKeys \cup {NoKey}, put : {Num(1), Str}]

\* the object the hook h returns for the scheme s
ApplyHook(h, s) ==
  LET kept == DOMAIN s \ {h.drop}
      keys == IF h.add = NoKey THEN kept ELSE kept \cup {h.add}
  IN [k \in keys |-> IF k = h.add THEN h.put ELSE s[k]]

\* the exact object type of a value
TypeOf(v) == <<ObjType([k \in DOMAIN v |-> {v[k].tag}], {}, FALSE, {})>>

\* the values of the types T extends ColorSchemeReturnType<V>, enumerated once
ConformingTrue == {t : t \in {s \in ObjectsOver(SchemeKeys) : Assignable(s, ColorSchemeReturnType(TRUE))}}
ConformingFalse == {t : t \in {s \in ObjectsOver(SchemeKeys) : Assignable(s, ColorSchemeReturnType(FALSE))}}
Conforming(V) == IF V THEN ConformingTrue ELSE ConformingFalse

\* the signature without the type parameter:
\* (colorScheme: ColorSchemeReturnType<V>) => ColorSchemeReturnType<V>
HookAcceptedNonGeneric(h, V) ==
  \A s \in Conforming(V) : Assignable(ApplyHook(h, s), ColorSchemeReturnType(V))

\* <T extends ColorSchemeReturnType<V>>(colorScheme: T) => T :
\* for every T, what the body returns is assignable to T
HookAccepted(h, V) ==
  \A s \in Conforming(V) : Assignable(ApplyHook(h, s), TypeOf(s))


\* the hook bodies the signature accepts, enumerated once
AcceptedHooksTrue == {h : h \in {g \in Hooks : HookAccepted(g, TRUE)}}
AcceptedHooksFalse == {h : h \in {g \in Hooks : HookAccepted(g, FALSE)}}
AcceptedHooks(V) == IF V THEN AcceptedHooksTrue ELSE AcceptedHooksFalse

InitHook ==
  /\ variants \in BOOLEAN
  /\ value \in Conforming(variants)
  /\ hook \in Hooks
  /\ key = NoKey
  /\ target = NoTarget
  /\ verdict = FALSE
  /\ base = <<>>
  /\ options = EmptyObject
  /\ result = EmptyObject

\* the hook is checked against the declared signature
CheckHook ==
  /\ target = NoTarget
  /\ target' = "modifyColorScheme"
  /\ verdict' = (hook \in AcceptedHooks(variants))
  /\ UNCHANGED <<value, key, variants, base, options, hook, result>>

\* an accepted hook is run on the generated scheme
RunHook ==
  /\ target = "modifyColorScheme"
  /\ verdict
  /\ target' = "modified"
  /\ result' = ApplyHook(hook, value)
  /\ UNCHANGED <<value, key, verdict, variants, base, options, hook>>

NextHook ==
  \/ CheckHook
  \/ RunHook

SpecHook == InitHook /\ [][NextHook]_vars

(***************************************************************************)
(* ColorSchemeOptions<V> and ThemeOptions                                  *)
(***************************************************************************)
\* an object type whose properties are all optional
OptionalObjType(props) == ObjType(props, DOMAIN props, FALSE, {})

\* paletteTones declared as boolean | number[]
ColorSchemeOptionsBooleanTones(V) ==
  <<OptionalObjType([dark |-> {"boolean"},
                     brightnessVariants |-> {IF V THEN "true" ELSE "false"},
                     paletteTones |-> {"boolean", "number[]"},
                     modifyColorScheme |-> {"function"}])>>

\* interface ColorSchemeOptions<V extends boolean = false>
ColorSchemeOptions(V) ==
  <<OptionalObjType([dark |-> {"boolean"},
                     brightnessVariants |-> {IF V THEN "true" ELSE "false"},
                     paletteTones |-> {"false", "number[]"},
                     modifyColorScheme |-> {"function"}])>>

\* a default that requests a tone
PaletteTonesDefaultOn == Arr(<<Num(50)>>)

\* @default false
PaletteTonesDefault == Bool(FALSE)

\* SchemeOptions ('./scheme.ts'): the options of scheme generation, with the
\* dark-mode flag
SchemeOptions ==
  <<OptionalObjType([isDark |-> {"boolean"},
                     contrastLevel |-> {"number"},
                     variant |-> {"number"}])>>

\* Omit<T, K> of an object type
OmitObj(t, K) ==
  ObjType([p \in DOMAIN t.props \ K |-> t.props[p]], t.optional \ K, t.hasIndex, t.index)

\* Omit<T, K>
Omit(T, K) == [i \in DOMAIN T |-> OmitObj(T[i], K)]

\* the flag omitted under the name ColorSchemeOptions gives it
ThemeOptionsOmitDark ==
  Omit(SchemeOptions, {"dark"}) \o <<OptionalObjType([staticColors |-> {"StaticColor[]"}])>>

\* Omit<SchemeOptions, 'isDark'> & { staticColors?: StaticColor[] }
ThemeOptions ==
  Omit(SchemeOptions, {"isDark"}) \o <<OptionalObjType([staticColors |-> {"StaticColor[]"}])>>

\* the properties an intersection declares
DeclaredKeys(ts) == UNION {DOMAIN ts[i].props : i \in DOMAIN ts}

HasIndex(ts) == \E i \in DOMAIN ts : ts[i].hasIndex

\* an object literal is accepted by a type: it is assignable and, the type
\* having no index signature, it names no property the type does not declare
AcceptsLiteral(v, ts) ==
  /\ Assignable(v, ts)
  /\ HasIndex(ts) \/ DOMAIN v \subseteq DeclaredKeys(ts)

\* the six tonal palettes of a Theme
PALETTE_ROLES == {"primary", "secondary", "tertiary", "neutral", "neutralVariant", "error"}

\* the tones requested by an options object
PaletteTonesOf(o) == IF "paletteTones" \in DOMAIN o THEN o.paletteTones ELSE PaletteTonesDefault

\* the tone entries generated for each palette role
GeneratePaletteTones(o) ==
  LET pt == PaletteTonesOf(o)
  IN IF pt.tag = "array"
       THEN [r \in PALETTE_ROLES |-> [i \in DOMAIN pt.elems |-> pt.elems[i].n]]
       ELSE [r \in {} |-> <<>>]

Absent == [tag |-> "absent"]
StaticColor == [tag |-> "StaticColor"]

\* the object literal with the properties of c that are not absent
Literal(c) == [f \in {g \in DOMAIN c : c[g] # Absent} |-> c[f]]

\* sequences over S of length at most n
SeqsUpTo(S, n) == UNION {[1..m -> S] : m \in 0..n}

ToneElements == {Num(10), Num(50), Num(101), Str}

PaletteTonesChoices ==
  {Absent, Bool(FALSE), Bool(TRUE)} \cup {Arr(es) : es \in SeqsUpTo(ToneElements, MaxTones)}

ColorSchemeOptionsCandidates ==
  {Literal(c) : c \in [dark : {Absent, Bool(TRUE), Str},
                       brightnessVariants : {Absent, Bool(TRUE), Bool(FALSE)},
                       paletteTones : PaletteTonesChoices,
                       modifyColorScheme : {Absent, Fun}]}

ThemeOptionsCandidates ==
  {Literal(c) : c \in [isDark : {Absent, Bool(TRUE)},
                       dark : {Absent, Bool(TRUE)},
                       contrastLevel : {Absent, Num(0), Str},
                       variant : {Absent, Num(0)},
                       staticColors : {Absent, Arr(<<>>), Arr(<<StaticColor>>), Num(0)}]}

InitOptions ==
  /\ options \in ColorSchemeOptionsCandidates \cup ThemeOptionsCandidates
  /\ variants \in BOOLEAN
  /\ value = EmptyObject
  /\ key = NoKey
  /\ target = NoTarget
  /\ verdict = FALSE
  /\ base = <<>>
  /\ hook = <<>>
  /\ result = EmptyObject

\* const o: ColorSchemeOptions<V> = { ... }
CheckColorSchemeOptions ==
  /\ target = NoTarget
  /\ target' = "ColorSchemeOptions"
  /\ verdict' = AcceptsLiteral(options, ColorSchemeOptions(variants))
  /\ UNCHANGED <<value, key, variants, base, options, hook, result>>

\* const o: ThemeOptions = { ... }
CheckThemeOptions ==
  /\ target = NoTarget
  /\ target' = "ThemeOptions"
  /\ verdict' = AcceptsLiteral(options, ThemeOptions)
  /\ UNCHANGED <<value, key, variants, base, options, hook, result>>

\* a scheme is generated from accepted options
Generate ==
  /\ target = "ColorSchemeOptions"
  /\ verdict
  /\ target' = "generated"
  /\ result' = GeneratePaletteTones(options)
  /\ UNCHANGED <<value, key, verdict, variants, base, options, hook>>

NextOptions ==
  \/ CheckColorSchemeOptions
  \/ CheckThemeOptions
  \/ Generate

SpecOptions == InitOptions /\ [][NextOptions]_vars

(***************************************************************************)
(* Properties                                                              *)
(***************************************************************************)
\* v defines a number at k
HasNumberAt(v, k) == k \in DOMAIN v /\ v[k].tag = "number"

\* C1: a value accepted as a ColorScheme defines a number at every canonical
\* ColorKey
C1_EveryCanonicalKeyRequired ==
  (target = "ColorScheme" /\ verdict) => \A k \in CanonicalKeys : HasNumberAt(value, k)

\* C2: for each suffix s in {Light, Dark} the suffixed scheme type requires,
\* for every canonical key k, exactly one key k+s with a number value, and no
\* key of another form: a value is accepted exactly when it defines a number
\* at every k+s
C2_SuffixedKeysExact ==
  /\ target = "LightColorScheme" =>
       (verdict <=> \A k \in CanonicalKeys : HasNumberAt(value, k \o "Light"))
  /\ target = "DarkColorScheme" =>
       (verdict <=> \A k \in CanonicalKeys : HasNumberAt(value, k \o "Dark"))
  /\ \A k \in CanonicalKeys :
       /\ Cardinality({p \in RequiredKeysOf(LightColorScheme) : p = k \o "Light"}) = 1
       /\ Cardinality({p \in RequiredKeysOf(DarkColorScheme) : p = k \o "Dark"}) = 1
  /\ RequiredKeysOf(LightColorScheme) \subseteq LightKeys
  /\ RequiredKeysOf(DarkColorScheme) \subseteq DarkKeys
  /\ Cardinality(RequiredKeysOf(LightColorScheme)) = Cardinality(CanonicalKeys)
  /\ Cardinality(RequiredKeysOf(DarkColorScheme)) = Cardinality(CanonicalKeys)
  /\ CanonicalKeys = {"primary", "secondary"} =>
       RequiredKeysOf(LightColorScheme) = {"primaryLight", "secondaryLight"}

\* a value with the Light keys and an extra key, and no base key, is accepted
C2_Witness ==
  /\ target = "LightColorScheme"
  /\ verdict
  /\ DOMAIN value = LightKeys \cup ExtraKeys

\* C3: ColorSchemeReturnType<true> accepts exactly the values that conform to
\* ColorScheme, LightColorScheme and DarkColorScheme together, and what it
\* requires is every canonical key, every k+Light and every k+Dark;
\* ColorSchemeReturnType<false> accepts exactly the values of ColorScheme
C3_ReturnTypeRequiredKeys ==
  /\ (target = "ColorSchemeReturnType" /\ variants) =>
       /\ verdict <=> /\ Assignable(value, ColorScheme)
                      /\ Assignable(value, LightColorScheme)
                      /\ Assignable(value, DarkColorScheme)
       /\ verdict <=> \A k \in CanonicalKeys \cup LightKeys \cup DarkKeys : HasNumberAt(value, k)
  /\ (target = "ColorSchemeReturnType" /\ ~variants) =>
       (verdict <=> Assignable(value, ColorScheme))

\* C4: a value that satisfies the base shape T and whose entries beyond the
\* fields of T are numbers is a CustomColorScheme<T>: no required field of T
\* becomes unsatisfiable
C4_BaseFieldsStaySatisfiable ==
  (/\ target = "T"
   /\ verdict
   /\ \A k \in DOMAIN value \ DeclaredKeys(base) : value[k].tag = "number")
  => Assignable(value, CustomColorScheme(base))

IsValidTone(e) == e.tag = "number" /\ e.n \in 0..100

\* C7 as stated: in an accepted ColorSchemeOptions paletteTones is absent,
\* false or a non-empty list of valid tones; an empty list or a list with an
\* invalid tone is not accepted
C7_TonesNonEmptyValid ==
  (target = "ColorSchemeOptions" /\ "paletteTones" \in DOMAIN options) =>
    LET pt == options.paletteTones
        good == /\ pt.tag = "array"
                /\ pt.elems # <<>>
                /\ \A i \in DOMAIN pt.elems : IsValidTone(pt.elems[i])
    IN /\ verdict => (pt = Bool(FALSE) \/ good)
       /\ (pt.tag = "array" /\ ~good) => ~verdict

\* C7 as amended: in an accepted ColorSchemeOptions paletteTones is absent,
\* false or a list, possibly empty, whose elements are all numbers; a list
\* with an element that is not a number is not accepted
C7_TonesFalseOrNumberList ==
  (target = "ColorSchemeOptions" /\ "paletteTones" \in DOMAIN options) =>
    LET pt == options.paletteTones
        numbers == /\ pt.tag = "array"
                   /\ \A i \in DOMAIN pt.elems : pt.elems[i].tag = "number"
    IN /\ verdict => (pt = Bool(FALSE) \/ numbers)
       /\ (pt.tag = "array" /\ ~numbers) => ~verdict

\* options whose tone list holds a number that is no tone are accepted
C7_Witness ==
  /\ target = "ColorSchemeOptions"
  /\ verdict
  /\ "paletteTones" \in DOMAIN options
  /\ options.paletteTones.tag = "array"
  /\ \E i \in DOMAIN options.paletteTones.elems : ~IsValidTone(options.paletteTones.elems[i])

C9_ColorKeyOpen ==
  target = "ColorKey" => verdict

\* C10: a value accepted as ColorSchemeReturnType<true> is accepted as
\* ColorSchemeReturnType<false> and maps every key it has to a number; no key
\* derived with Light is a key derived with Dark
C10_VariantsRefineBase ==
  /\ (target = "ColorSchemeReturnType" /\ variants /\ verdict) =>
       /\ Assignable(value, ColorSchemeReturnType(FALSE))
       /\ \A k \in DOMAIN value : value[k].tag = "number"
  /\ RequiredKeysOf(LightColorScheme) \cap RequiredKeysOf(DarkColorScheme) = {}
  /\ \A a \in SchemeKeys \cup {"", "Light", "Dark"} :
       \A b \in SchemeKeys \cup {"", "Light", "Dark"} :
         SuffixedKey(a, "Light") # SuffixedKey(b, "Dark")

\* a value with an extra key is accepted as ColorSchemeReturnType<true>
C10_Witness ==
  /\ target = "ColorSchemeReturnType"
  /\ variants
  /\ verdict
  /\ ExtraKeys \subseteq DOMAIN value
  /\ CanonicalKeys \cap DOMAIN value = {}

====
